---- MODULE Spec2Model ----
(***************************************************************************)
(* Cart management and order placement of the e-commerce server            *)
(* (server/src/handlers), modelled over the PostgreSQL tables of           *)
(* server/src/db/schema.ts.                                                *)
(*                                                                         *)
(* Every handler is an async function; each `await ... .execute()` is one  *)
(* SQL statement and one step of the request that runs the handler, so     *)
(* the statements of concurrent requests interleave.  Statements outside   *)
(* db.transaction autocommit.  Inside db.transaction (createOrder) the     *)
(* isolation level is the PostgreSQL default, READ COMMITTED: a statement  *)
(* reads the rows committed when it starts, and the transaction's writes   *)
(* become visible to other requests together, at COMMIT, or never          *)
(* (ROLLBACK).                                                             *)
(***************************************************************************)
EXTENDS Integers, FiniteSets, Sequences, TLC

(***************************************************************************)
(* Bounds of the model.                                                    *)
(***************************************************************************)
MaxCartId   == 2      \* cart_items.id values the serial may hand out
MaxOrderId  == 2      \* orders.id values the serial may hand out
InitStock   == 2      \* products.stock of every product at the start
MaxQty      == 2      \* largest quantity a request asks for
SubCent     == 1000   \* resolution of a floating-point amount: 1/SubCent cent
MaxDrift    == 1      \* largest floating-point drift of a sum, in 1/SubCent cent
MaxAddrLen  == 2      \* pieces of a destination address
MaxTxnId    == 2      \* transactions.id values the serial may hand out
MaxShippingId == 2    \* shipping.id values the serial may hand out

\* Two requests are in flight at a time.
Requests == {1, 2}

(***************************************************************************)
(* Rows of usersTable and productsTable.  Users 1 and 2 exist and are      *)
(* active; user id 3 is in no row; user 4 has a row with is_active false.  *)
(* Products 1 and 2 exist (Laptop 999.99, Mouse 29.99, the fixtures of the *)
(* createOrder tests); product id 3 is in no row.  Prices are              *)
(* numeric(10,2), held here in cents.                                      *)
(***************************************************************************)
Users         == {1, 2}
InactiveUsers == {4}
UserRows      == Users \cup InactiveUsers
UserIds       == {1, 2, 3, 4}
Products   == {1, 2}
ProductIds == {1, 2, 3}
Price      == (1 :> 99999) @@ (2 :> 2999)
Quantities == 1..MaxQty
CartIds    == 1..MaxCartId
Addresses  == {"123 Main St"}
Methods    == {"Standard Shipping"}

\* The user ids a request's calls are made with: request 1 is a session of
\* user 1, request 2 calls with any id.  Concurrent calls of one user
\* (1, 1), of two users (1, 2), of an unknown user (1, 3) and of an
\* inactive user (1, 4) all occur.
Callers(r) == IF r = 1 THEN {1} ELSE UserIds

VARIABLES
    stock,        \* productsTable.stock, committed: [Products -> Int]
    cart,         \* cartItemsTable, committed rows
    nextCartId,   \* the serial of cart_items.id
    orders,       \* ordersTable, committed rows
    orderItems,   \* orderItemsTable, committed rows
    nextOrderId,  \* the serial of orders.id
    transactions, \* transactionsTable, committed rows
    nextTxnId,    \* the serial of transactions.id
    shipping,     \* shippingTable, committed rows
    nextShippingId, \* the serial of shipping.id
    req           \* the handler each request runs, its position and locals

vars == <<stock, cart, nextCartId, orders, orderItems, nextOrderId,
          transactions, nextTxnId, shipping, nextShippingId, req>>

\* The tables and serials of payment and delivery, which no cart handler
\* and no checkout touches.
fulfilment == <<transactions, nextTxnId, shipping, nextShippingId>>

None == 0

(***************************************************************************)
(* A request is idle, runs a handler (pc names the statement it executes   *)
(* next), or is done: the handler's promise has settled with `result`.     *)
(* user, product, qty, line, addr, method, dest, weight, order, status are  *)
(* the handler's inputs; stockRead, newQty, items, tx, payment are its     *)
(* locals; options is the value calculateShipping resolves with.           *)
(***************************************************************************)
IdleReq ==
    [op |-> "none", pc |-> "idle", user |-> None, product |-> None,
     qty |-> None, line |-> None, addr |-> "", method |-> "",
     dest |-> <<>>, weight |-> None, order |-> None, status |-> "",
     payment |-> "",
     stockRead |-> None, newQty |-> None, items |-> {}, tx |-> None,
     result |-> "none", options |-> <<>>]

Init ==
    /\ stock = [p \in Products |-> InitStock]
    /\ cart = {}
    /\ nextCartId = 1
    /\ orders = {}
    /\ orderItems = {}
    /\ nextOrderId = 1
    /\ transactions = {}
    /\ nextTxnId = 1
    /\ shipping = {}
    /\ nextShippingId = 1
    /\ req = [r \in Requests |-> IdleReq]

\* The handler returns or throws: its locals go; the call (handler, user,
\* cart line or order addressed) and its result stay until the caller has
\* taken the result.
Settled(q, res) ==
    [IdleReq EXCEPT !.op = q.op, !.user = q.user, !.line = q.line,
                    !.order = q.order, !.pc = "done", !.result = res]

Settle(r, res) == req' = [req EXCEPT ![r] = Settled(req[r], res)]

Return(r) ==
    /\ req[r].pc = "done"
    /\ req' = [req EXCEPT ![r] = IdleReq]
    /\ UNCHANGED <<stock, cart, nextCartId, orders, orderItems, nextOrderId>>
    /\ UNCHANGED fulfilment

(***************************************************************************)
(* addToCart(input, userId)                                                *)
(***************************************************************************)
UserMissingOrInactive_ActiveUnchecked(u) == u \notin UserRows

\* `user.length === 0 || !user[0].is_active`
UserMissingOrInactive(u) == u \notin UserRows \/ u \in InactiveUsers

AddStockShort_Never(stockNow, quantity) == FALSE

\* `product[0].stock < input.quantity`
AddStockShort(stockNow, quantity) == stockNow < quantity

MergedQuantity_Replacing(existing, requested) == requested

\* `existingCartItem[0].quantity + input.quantity`
MergedQuantity(existing, requested) == existing + requested

AddTotalExceeds_Never(newQuantity, stockNow) == FALSE

\* `newQuantity > product[0].stock`
AddTotalExceeds(newQuantity, stockNow) == newQuantity > stockNow

\* The call arrives and the user and product selects run, with their
\* checks.  usersTable never changes here, so its select is taken together
\* with the product's.  The error thrown names what was refused: the
\* product id, or the product and the quantity.
AddReadProduct(r) ==
    /\ req[r].pc = "idle"
    /\ \E u \in Callers(r), p \in ProductIds, q \in Quantities :
         LET call == [IdleReq EXCEPT !.op = "addToCart", !.user = u,
                                     !.product = p, !.qty = q]
         IN  req' = [req EXCEPT ![r] =
                 IF UserMissingOrInactive(u)
                 THEN Settled(call, "UserNotFound")
                 ELSE IF p \notin Products
                 THEN [Settled(call, "ProductNotFound") EXCEPT !.product = p]
                 ELSE IF AddStockShort(stock[p], q)
                 THEN [Settled(call, "InsufficientStock") EXCEPT !.product = p,
                                                                 !.qty = q]
                 ELSE [call EXCEPT !.pc = "add_existing", !.stockRead = stock[p]]]
    /\ UNCHANGED <<stock, cart, nextCartId, orders, orderItems, nextOrderId>>
    /\ UNCHANGED fulfilment

\* The select of the (user, product) line.  existingCartItem[0] is any of
\* the rows matched: the select has no ORDER BY.
AddReadExisting(r) ==
    /\ req[r].pc = "add_existing"
    /\ LET rows == {c \in cart : c.user_id = req[r].user
                                 /\ c.product_id = req[r].product}
       IN  IF rows = {}
           THEN req' = [req EXCEPT ![r].pc = "add_insert", ![r].stockRead = None]
           ELSE \E c \in rows :
                  LET newQuantity == MergedQuantity(c.quantity, req[r].qty)
                  IN  IF AddTotalExceeds(newQuantity, req[r].stockRead)
                      THEN Settle(r, "TotalExceedsStock")
                      ELSE req' = [req EXCEPT ![r].pc = "add_update",
                                              ![r].line = c.id,
                                              ![r].newQty = newQuantity,
                                              ![r].stockRead = None]
    /\ UNCHANGED <<stock, cart, nextCartId, orders, orderItems, nextOrderId>>
    /\ UNCHANGED fulfilment

\* UPDATE cart_items SET quantity = newQuantity WHERE id = existing.id.
\* When the row is gone the update returns no row and result[0] is
\* undefined: the handler still returns.
AddUpdate(r) ==
    /\ req[r].pc = "add_update"
    /\ cart' = {IF c.id = req[r].line
                THEN [c EXCEPT !.quantity = req[r].newQty] ELSE c : c \in cart}
    /\ Settle(r, IF \E c \in cart : c.id = req[r].line THEN "ok" ELSE "undefined")
    /\ UNCHANGED <<stock, nextCartId, orders, orderItems, nextOrderId>>
    /\ UNCHANGED fulfilment

\* INSERT INTO cart_items (user_id, product_id, quantity).
AddInsert(r) ==
    /\ req[r].pc = "add_insert"
    /\ nextCartId <= MaxCartId
    /\ cart' = cart \cup {[id |-> nextCartId, user_id |-> req[r].user,
                           product_id |-> req[r].product,
                           quantity |-> req[r].qty]}
    /\ nextCartId' = nextCartId + 1
    /\ Settle(r, "ok")
    /\ UNCHANGED <<stock, orders, orderItems, nextOrderId>>
    /\ UNCHANGED fulfilment

(***************************************************************************)
(* updateCartItem(input, userId)                                           *)
(***************************************************************************)
UpdSelectLine_AnyUser(rows, id, u) == {c \in rows : c.id = id}

\* SELECT ... WHERE cart_items.id = input.id AND cart_items.user_id = userId
UpdSelectLine(rows, id, u) == {c \in rows : c.id = id /\ c.user_id = u}

UpdateExceeds_AtLeast(quantity, stockNow) == quantity >= stockNow

\* `input.quantity > product.stock`
UpdateExceeds(quantity, stockNow) == quantity > stockNow

UpdSetQuantity_EveryLine(rows, id, quantity) ==
    {[c EXCEPT !.quantity = quantity] : c \in rows}

\* UPDATE cart_items SET quantity = input.quantity WHERE id = input.id: the
\* rows of the table after the statement.
UpdSetQuantity(rows, id, quantity) ==
    {IF c.id = id THEN [c EXCEPT !.quantity = quantity] ELSE c : c \in rows}

\* The call arrives and the select of the line by id and user runs.
UpdReadItem(r) ==
    /\ req[r].pc = "idle"
    /\ \E u \in Callers(r) \cap Users, id \in CartIds, q \in Quantities :
         LET call == [IdleReq EXCEPT !.op = "updateCartItem", !.user = u,
                                     !.line = id, !.qty = q]
             rows == UpdSelectLine(cart, id, u)
         IN  IF rows = {}
             THEN req' = [req EXCEPT ![r] = Settled(call, "CartItemNotFound")]
             ELSE \E c \in rows :
                    req' = [req EXCEPT ![r] =
                        [call EXCEPT !.pc = "upd_product", !.product = c.product_id]]
    /\ UNCHANGED <<stock, cart, nextCartId, orders, orderItems, nextOrderId>>
    /\ UNCHANGED fulfilment

\* The select of the product and the stock check.  A cart line's product
\* row exists (foreign key), so `products.length === 0` cannot happen.
UpdReadProduct(r) ==
    /\ req[r].pc = "upd_product"
    /\ IF UpdateExceeds(req[r].qty, stock[req[r].product])
       THEN Settle(r, "InsufficientStock")
       ELSE req' = [req EXCEPT ![r].pc = "upd_write"]
    /\ UNCHANGED <<stock, cart, nextCartId, orders, orderItems, nextOrderId>>
    /\ UNCHANGED fulfilment

\* UPDATE cart_items SET quantity = input.quantity WHERE id = input.id.
UpdWrite(r) ==
    /\ req[r].pc = "upd_write"
    /\ cart' = UpdSetQuantity(cart, req[r].line, req[r].qty)
    /\ Settle(r, IF \E c \in cart : c.id = req[r].line THEN "ok" ELSE "undefined")
    /\ UNCHANGED <<stock, nextCartId, orders, orderItems, nextOrderId>>
    /\ UNCHANGED fulfilment

(***************************************************************************)
(* removeCartItem(id, userId): one DELETE ... WHERE id AND user_id.        *)
(***************************************************************************)
RemoveMatch_AnyUser(rows, id, u) == {c \in rows : c.id = id}

\* `WHERE cart_items.id = id AND cart_items.user_id = userId`
RemoveMatch(rows, id, u) == {c \in rows : c.id = id /\ c.user_id = u}

RemoveSuccess_Always(rowCount) == rowCount >= 0

\* `success: (result.rowCount ?? 0) > 0`
RemoveSuccess(rowCount) == rowCount > 0

RemoveCartItem(r) ==
    /\ req[r].pc = "idle"
    /\ \E u \in Callers(r) \cap Users, id \in CartIds :
         LET call == [IdleReq EXCEPT !.op = "removeCartItem", !.user = u,
                                     !.line = id]
             rows == RemoveMatch(cart, id, u)
         IN  /\ cart' = cart \ rows
             /\ req' = [req EXCEPT ![r] =
                    Settled(call, IF RemoveSuccess(Cardinality(rows))
                                  THEN "true" ELSE "false")]
    /\ UNCHANGED <<stock, nextCartId, orders, orderItems, nextOrderId>>
    /\ UNCHANGED fulfilment

(***************************************************************************)
(* getCartItems(userId): one SELECT of the user's lines, joined with their *)
(* products and categories; it returns the lines' own columns.             *)
(***************************************************************************)
GetCartItems(r) ==
    /\ req[r].pc = "idle"
    /\ \E u \in Callers(r) \cap Users :
         LET call == [IdleReq EXCEPT !.op = "getCartItems", !.user = u]
         IN  req' = [req EXCEPT ![r] =
                 [Settled(call, "ok") EXCEPT !.items = {c \in cart : c.user_id = u}]]
    /\ UNCHANGED <<stock, cart, nextCartId, orders, orderItems, nextOrderId>>
    /\ UNCHANGED fulfilment

(***************************************************************************)
(* createOrder(input, userId): one db.transaction.                         *)
(***************************************************************************)
\* The rows of the select: the user's cart lines joined with their products.
CartWithProducts(u) ==
    {[id |-> c.id, product_id |-> c.product_id, quantity |-> c.quantity,
      product_price |-> Price[c.product_id],
      product_stock |-> stock[c.product_id]] : c \in {d \in cart : d.user_id = u}}

CartIsEmpty_Never(items) == FALSE

\* `cartItems.length === 0`
CartIsEmpty(items) == Cardinality(items) = 0

StockInsufficient_Never(item) == FALSE
StockInsufficient_OffByOne(item) == item.quantity > item.product_stock + 1

\* `item.quantity > item.product_stock`
StockInsufficient(item) == item.quantity > item.product_stock

RECURSIVE SumOver(_, _)
SumOver(S, f) ==
    IF S = {} THEN 0
    ELSE LET x == CHOOSE y \in S : TRUE
         IN  f[x] + SumOver(S \ {x}, f)

\* `totalAmount += parseFloat(item.product_price) * item.quantity`: binary
\* floating point, so the sum is the exact amount up to a drift, counted
\* here in units of 1/SubCent of a cent.
FloatTotals(items) ==
    LET exact == SumOver(items, [i \in items |-> i.product_price * i.quantity])
    IN  {exact * SubCent + e : e \in (0 - MaxDrift)..MaxDrift}

ToNumeric2_Truncating(x) == x \div SubCent

\* `total_amount: totalAmount.toString()` stored in numeric(10,2): PostgreSQL
\* rounds the decimal string to two places (half away from zero), in cents.
ToNumeric2(x) == (x + (SubCent \div 2)) \div SubCent

\* The row of the insert into ordersTable.
NewOrder(id, u, addr, method, total) ==
    [id |-> id, user_id |-> u, total_amount |-> ToNumeric2(total),
     status |-> "pending", shipping_address |-> addr, shipping_method |-> method]

NewOrderItem_UnitQuantity(orderId, item) ==
    [order_id |-> orderId, product_id |-> item.product_id,
     quantity |-> 1, price_at_purchase |-> item.product_price, src |-> item.id]

\* The row of the insert into orderItemsTable for one cart line.  `src` is
\* the cart line it comes from and stands for order_items.id: two lines
\* with equal columns are two rows.
NewOrderItem(orderId, item) ==
    [order_id |-> orderId, product_id |-> item.product_id,
     quantity |-> item.quantity, price_at_purchase |-> item.product_price,
     src |-> item.id]

\* `.set({ stock: item.product_stock - item.quantity })`
NewStock(item) == item.product_stock - item.quantity

ClearCart_Skipped(rows, u) == rows
ClearCart_OtherUsers(rows, u) == {c \in rows : c.user_id = u}
ClearCart_Everyone(rows, u) == {}

\* `DELETE FROM cart_items WHERE user_id = userId`: the rows that stay.
ClearCart(rows, u) == {c \in rows : c.user_id # u}

\* The writes of the transaction for the rows of the select: the order row,
\* one order item per row, and the stock updates.  The loop runs in the
\* order of the select's rows, which is unspecified; when several lines
\* name one product, the update of the last of them stands.
TxWrites(id, u, addr, method, items) ==
    LET prods == {i.product_id : i \in items}
    IN  {[order |-> NewOrder(id, u, addr, method, total),
          items |-> {NewOrderItem(id, i) : i \in items},
          stock |-> [p \in prods |-> NewStock(last[p])]] :
            total \in FloatTotals(items),
            last \in {f \in [prods -> items] : \A p \in prods : f[p].product_id = p}}

\* The call arrives and the transaction runs up to its last statement: the
\* select, the empty-cart check and the validation loop, which throw before
\* any write, then the inserts into ordersTable and orderItemsTable and the
\* stock updates.  These writes stay in the transaction (tx) until COMMIT,
\* no other request sees them, so they are taken in one step with the
\* select.  The serial of orders.id is not transactional.
CreateOrderBegin(r) ==
    /\ req[r].pc = "idle"
    /\ \E u \in Callers(r), a \in Addresses, m \in Methods :
         LET call  == [IdleReq EXCEPT !.op = "createOrder", !.user = u,
                                      !.addr = a, !.method = m]
             items == CartWithProducts(u)
         IN  IF CartIsEmpty(items)
             THEN /\ req' = [req EXCEPT ![r] = Settled(call, "EmptyCart")]
                  /\ UNCHANGED nextOrderId
             ELSE IF \E i \in items : StockInsufficient(i)
             THEN /\ req' = [req EXCEPT ![r] = Settled(call, "InsufficientStock")]
                  /\ UNCHANGED nextOrderId
             ELSE /\ nextOrderId <= MaxOrderId
                  /\ \E w \in TxWrites(nextOrderId, u, a, m, items) :
                       req' = [req EXCEPT ![r] =
                           [call EXCEPT !.pc = "co_commit", !.items = items, !.tx = w]]
                  /\ nextOrderId' = nextOrderId + 1
    /\ UNCHANGED <<stock, cart, nextCartId, orders, orderItems>>
    /\ UNCHANGED fulfilment

\* The delete of the user's cart lines and COMMIT: the transaction's writes
\* land together.
CreateOrderCommit(r) ==
    /\ req[r].pc = "co_commit"
    /\ LET tx == req[r].tx
       IN  /\ orders' = orders \cup {tx.order}
           /\ orderItems' = orderItems \cup tx.items
           /\ stock' = [p \in Products |->
                           IF p \in DOMAIN tx.stock THEN tx.stock[p] ELSE stock[p]]
           /\ cart' = ClearCart(cart, req[r].user)
    /\ Settle(r, "ok")
    /\ UNCHANGED <<nextCartId, nextOrderId>>
    /\ UNCHANGED fulfilment

\* The transaction cannot go on (connection lost, deadlock victim): the
\* callback's error rolls it back and is rethrown.
CreateOrderAbort(r) ==
    /\ req[r].pc = "co_commit"
    /\ Settle(r, "Fatal")
    /\ UNCHANGED <<stock, cart, nextCartId, orders, orderItems, nextOrderId>>
    /\ UNCHANGED fulfilment

Next ==
    \E r \in Requests :
        \/ AddReadProduct(r)
        \/ AddReadExisting(r)
        \/ AddUpdate(r)
        \/ AddInsert(r)
        \/ UpdReadItem(r)
        \/ UpdReadProduct(r)
        \/ UpdWrite(r)
        \/ RemoveCartItem(r)
        \/ GetCartItems(r)
        \/ CreateOrderBegin(r)
        \/ CreateOrderCommit(r)
        \/ CreateOrderAbort(r)
        \/ Return(r)

Spec == Init /\ [][Next]_vars

(***************************************************************************)
(* calculateShipping(input): no table is read or written.                  *)
(*                                                                         *)
(* A destination address is a sequence of pieces: runs of white space and  *)
(* runs of other text.  String.trim, toLowerCase and includes act on the   *)
(* pieces; no keyword of determineShippingZone spans two pieces.  Weights  *)
(* are in tenths of a unit, multipliers in tenths, costs in cents.         *)
(***************************************************************************)
Whitespace == {" ", "\t"}
Texts == {"123 Main St", "Local City", "SAME STATE", "Regional Ave", "Canada"}
Pieces == Whitespace \cup Texts

RECURSIVE SeqsUpTo(_, _)
SeqsUpTo(S, n) ==
    IF n = 0 THEN {<<>>}
    ELSE LET shorter == SeqsUpTo(S, n - 1)
         IN  shorter \cup {Append(a, x) : a \in shorter, x \in S}

DestinationAddresses == SeqsUpTo(Pieces, MaxAddrLen)

\* total_weight values around every threshold of the handler, in tenths.
Weights == {0 - 50, 0 - 1, 0, 1, 10, 11, 25, 50, 51, 100, 101,
            200, 201, 300, 301, 500, 501}

SHIPPING_ZONES_RegionalAtLocalRate ==
    [local         |-> [multiplier |-> 10, baseDays |-> 1],
     regional      |-> [multiplier |-> 10, baseDays |-> 3],
     national      |-> [multiplier |-> 20, baseDays |-> 5],
     international |-> [multiplier |-> 35, baseDays |-> 10]]

SHIPPING_ZONES ==
    [local         |-> [multiplier |-> 10, baseDays |-> 1],
     regional      |-> [multiplier |-> 15, baseDays |-> 3],
     national      |-> [multiplier |-> 20, baseDays |-> 5],
     international |-> [multiplier |-> 35, baseDays |-> 10]]

BASE_METHODS ==
    << [method |-> "Standard",  baseCost |-> 599,  speedMultiplier |-> 10, maxWeight |-> 500],
       [method |-> "Express",   baseCost |-> 1299, speedMultiplier |-> 4,  maxWeight |-> 300],
       [method |-> "Overnight", baseCost |-> 2499, speedMultiplier |-> 2,  maxWeight |-> 200] >>

\* The freight option's base cost, 50.0.
FreightBaseCost == 5000

\* String.prototype.toLowerCase, piece by piece.
ToLowerCase(piece) ==
    CASE piece = "123 Main St"  -> "123 main st"
      [] piece = "Local City"   -> "local city"
      [] piece = "SAME STATE"   -> "same state"
      [] piece = "Regional Ave" -> "regional ave"
      [] piece = "Canada"       -> "canada"
      [] OTHER                  -> piece

\* The keywords of determineShippingZone that a lower-case piece contains.
KeywordsIn(lowerPiece) ==
    CASE lowerPiece = "local city"   -> {"local"}
      [] lowerPiece = "same state"   -> {"same state"}
      [] lowerPiece = "regional ave" -> {"regional"}
      [] lowerPiece = "canada"       -> {"canada"}
      [] OTHER                       -> {}

\* `lowerAddress.includes(keyword)`
Includes(address, keyword) ==
    \E i \in 1..Len(address) : keyword \in KeywordsIn(ToLowerCase(address[i]))

determineShippingZone(address) ==
    IF Includes(address, "local") \/ Includes(address, "same city")
    THEN "local"
    ELSE IF Includes(address, "regional") \/ Includes(address, "same state")
    THEN "regional"
    ELSE IF \E k \in {"international", "canada", "mexico", "europe", "asia"} :
              Includes(address, k)
    THEN "international"
    ELSE "national"

calculateWeightMultiplier(weight) ==
    IF weight <= 10 THEN 10
    ELSE IF weight <= 50 THEN 12
    ELSE IF weight <= 100 THEN 15
    ELSE IF weight <= 200 THEN 20
    ELSE 25

\* String.prototype.trim: the address without its leading and trailing
\* white space.
RECURSIVE TrimStart(_)
TrimStart(a) ==
    IF a # <<>> /\ Head(a) \in Whitespace THEN TrimStart(Tail(a)) ELSE a

RECURSIVE TrimEnd(_)
TrimEnd(a) ==
    IF a # <<>> /\ a[Len(a)] \in Whitespace
    THEN TrimEnd(SubSeq(a, 1, Len(a) - 1)) ELSE a

Trim(a) == TrimEnd(TrimStart(a))

AddressIsBlank_Untrimmed(address) == address = <<>>

\* `!destination_address.trim()`
AddressIsBlank(address) == Trim(address) = <<>>

\* `total_weight <= 0`
WeightNotPositive(weight) == weight <= 0

\* `Math.round((baseCost * multiplier * weightMultiplier) * 100) / 100`, in
\* cents.  The product is a binary floating-point number: the exact product
\* up to a drift e, counted in 1/SubCent of a hundredth of a cent.
\* Math.round rounds half up.
RoundedCost(baseCost, zoneMultiplier, weightMultiplier, e) ==
    LET exact == baseCost * zoneMultiplier * weightMultiplier   \* 1/100 cent
        cents == exact \div 100
        rest  == (exact % 100) * SubCent + e
    IN  IF rest >= 50 * SubCent THEN cents + 1 ELSE cents

EstimatedDays_Floor(baseDays, speedMultiplier) ==
    (baseDays * speedMultiplier) \div 10

\* `Math.max(1, Math.ceil(zoneConfig.baseDays * method.speedMultiplier))`
EstimatedDays(baseDays, speedMultiplier) ==
    LET ceil == (baseDays * speedMultiplier + 9) \div 10
    IN  IF ceil > 1 THEN ceil ELSE 1

WithinMaxWeight_Below(m, weight) == weight < m.maxWeight

\* `total_weight <= method.maxWeight`
WithinMaxWeight(m, weight) == weight <= m.maxWeight

\* The option of the map callback for one method.
ShippingOption(m, zoneConfig, weightMultiplier, e) ==
    [method |-> m.method,
     cost |-> RoundedCost(m.baseCost, zoneConfig.multiplier, weightMultiplier, e),
     estimatedDays |-> EstimatedDays(zoneConfig.baseDays, m.speedMultiplier)]

\* `.sort((a, b) => a.cost - b.cost)`: Array.prototype.sort is stable.
RECURSIVE InsertByCost(_, _)
InsertByCost_Descending(sorted, o) ==
    IF sorted = <<>> THEN <<o>>
    ELSE IF sorted[Len(sorted)].cost >= o.cost THEN Append(sorted, o)
    ELSE Append(InsertByCost(SubSeq(sorted, 1, Len(sorted) - 1), o),
                sorted[Len(sorted)])

InsertByCost(sorted, o) ==
    IF sorted = <<>> THEN <<o>>
    ELSE IF sorted[Len(sorted)].cost <= o.cost THEN Append(sorted, o)
    ELSE Append(InsertByCost(SubSeq(sorted, 1, Len(sorted) - 1), o),
                sorted[Len(sorted)])

RECURSIVE SortByCost(_)
SortByCost(options) ==
    IF options = <<>> THEN <<>>
    ELSE InsertByCost(SortByCost(SubSeq(options, 1, Len(options) - 1)),
                      options[Len(options)])

\* The freight option returned when no method carries the weight.
FreightOption(zoneConfig, weightMultiplier, e) ==
    [method |-> "Freight",
     cost |-> RoundedCost(FreightBaseCost, zoneConfig.multiplier, weightMultiplier, e),
     estimatedDays |-> zoneConfig.baseDays + 2]

\* The option lists the handler can return for a valid input, one for each
\* drift of the floating-point products.
ShippingOptions(address, weight) ==
    LET zoneConfig == SHIPPING_ZONES[determineShippingZone(address)]
        wm         == calculateWeightMultiplier(weight)
        drifts     == (0 - MaxDrift)..MaxDrift
        eligible   == SelectSeq(BASE_METHODS, LAMBDA m : WithinMaxWeight(m, weight))
    IN  IF Len(eligible) = 0
        THEN {<<FreightOption(zoneConfig, wm, e)>> : e \in drifts}
        ELSE {SortByCost([i \in 1..Len(eligible) |->
                             ShippingOption(eligible[i], zoneConfig, wm, e[i])]) :
                 e \in [1..Len(eligible) -> drifts]}

\* The call with address a and weight w, and the whole handler: it awaits
\* nothing.
CalculateShippingWith(r, a, w) ==
    /\ req[r].pc = "idle"
    /\ LET call == [IdleReq EXCEPT !.op = "calculateShipping", !.pc = "done",
                                   !.dest = a, !.weight = w]
       IN  IF AddressIsBlank(a)
           THEN req' = [req EXCEPT ![r] = [call EXCEPT !.result = "EmptyAddress"]]
           ELSE IF WeightNotPositive(w)
           THEN req' = [req EXCEPT ![r] = [call EXCEPT !.result = "NonPositiveWeight"]]
           ELSE \E o \in ShippingOptions(a, w) :
                  req' = [req EXCEPT ![r] = [call EXCEPT !.result = "ok",
                                                         !.options = o]]
    /\ UNCHANGED <<stock, cart, nextCartId, orders, orderItems, nextOrderId>>
    /\ UNCHANGED fulfilment

CalculateShipping(r) ==
    \E a \in DestinationAddresses, w \in Weights : CalculateShippingWith(r, a, w)

\* The estimator shares no state with any handler, so its calls are taken
\* one at a time, by request 1, with the tables as they start.
ShippingNext == CalculateShipping(1) \/ Return(1)

SpecShipping == Init /\ [][ShippingNext]_vars

\* Two calls side by side, to compare what the estimator returns for two
\* inputs; their addresses are the one-piece ones, which cover the four
\* zones.
ZoneAddresses == {<<t>> : t \in Texts}

CalculateShippingOfPair(r) ==
    \E a \in ZoneAddresses, w \in Weights : CalculateShippingWith(r, a, w)

ShippingPairNext == \E r \in Requests : CalculateShippingOfPair(r) \/ Return(r)

SpecShippingPair == Init /\ [][ShippingPairNext]_vars
(***************************************************************************)
(* Payment and delivery of placed orders: updateOrderStatus,               *)
(* createTransaction and createShipping.  They start from the tables as    *)
(* two checkouts leave them: user 1 has ordered one Mouse (order 1), user  *)
(* 2 one Laptop (order 2), both orders pending.                            *)
(***************************************************************************)
PlacedLine(line, p, stockThen) ==
    [id |-> line, product_id |-> p, quantity |-> 1,
     product_price |-> Price[p], product_stock |-> stockThen]

InitPlaced ==
    /\ stock = [p \in Products |-> InitStock - 1]
    /\ cart = {}
    /\ nextCartId = 3
    /\ orders = {NewOrder(1, 1, "123 Main St", "Standard Shipping", Price[2] * SubCent),
                 NewOrder(2, 2, "123 Main St", "Standard Shipping", Price[1] * SubCent)}
    /\ orderItems = {NewOrderItem(1, PlacedLine(1, 2, InitStock)),
                     NewOrderItem(2, PlacedLine(2, 1, InitStock))}
    /\ nextOrderId = 3
    /\ transactions = {}
    /\ nextTxnId = 1
    /\ shipping = {}
    /\ nextShippingId = 1
    /\ req = [r \in Requests |-> IdleReq]

\* The order ids of the calls: the two orders and an id of no order.
OrderIds == {1, 2, 3}

\* orderStatusEnum
Statuses == {"pending", "paid", "shipped", "completed", "cancelled"}

\* The rows of ordersTable after UPDATE orders SET status WHERE id.
SetStatus(rows, id, status) ==
    {IF o.id = id THEN [o EXCEPT !.status = status] ELSE o : o \in rows}

\* updateOrderStatus: the call arrives and the select of the order runs.
UosReadOrder(r) ==
    /\ req[r].pc = "idle"
    /\ \E id \in OrderIds, st \in Statuses :
         LET call == [IdleReq EXCEPT !.op = "updateOrderStatus", !.order = id,
                                     !.status = st]
         IN  req' = [req EXCEPT ![r] =
                 IF \A o \in orders : o.id # id
                 THEN Settled(call, "OrderNotFound")
                 ELSE [call EXCEPT !.pc = "uos_write"]]
    /\ UNCHANGED <<stock, cart, nextCartId, orders, orderItems, nextOrderId>>
    /\ UNCHANGED fulfilment

\* updateOrderStatus: UPDATE orders SET status = input.status WHERE id.
UosWrite(r) ==
    /\ req[r].pc = "uos_write"
    /\ orders' = SetStatus(orders, req[r].order, req[r].status)
    /\ Settle(r, "ok")
    /\ UNCHANGED <<stock, cart, nextCartId, orderItems, nextOrderId>>
    /\ UNCHANGED fulfilment

PaymentMethods == {"credit_card", "paypal", "bank_transfer", "cash"}

\* The payment statuses the simulated gateway can give a payment method
\* (Math.random).
PaymentOutcomes(method) ==
    CASE method = "credit_card"   -> {"completed", "failed"}
      [] method = "paypal"        -> {"completed", "pending", "failed"}
      [] method = "bank_transfer" -> {"pending"}
      [] OTHER                    -> {"pending"}

\* `order.status === 'cancelled'` / `order.status === 'completed'`
NotPayable(status) == status \in {"cancelled", "completed"}

\* createTransaction: the call arrives, the select of the order runs with
\* its checks, and the gateway gives the payment status.
TxnReadOrder(r) ==
    /\ req[r].pc = "idle"
    /\ \E id \in OrderIds, m \in PaymentMethods :
         LET call == [IdleReq EXCEPT !.op = "createTransaction", !.order = id]
             rows == {o \in orders : o.id = id}
         IN  IF rows = {}
             THEN req' = [req EXCEPT ![r] = Settled(call, "OrderNotFound")]
             ELSE \E o \in rows :
                    IF NotPayable(o.status)
                    THEN req' = [req EXCEPT ![r] = Settled(call, "OrderNotPayable")]
                    ELSE \E ps \in PaymentOutcomes(m) :
                           req' = [req EXCEPT ![r] =
                               [call EXCEPT !.pc = "txn_insert", !.payment = ps]]
    /\ UNCHANGED <<stock, cart, nextCartId, orders, orderItems, nextOrderId>>
    /\ UNCHANGED fulfilment

\* createTransaction: the insert into transactionsTable.
TxnInsert(r) ==
    /\ req[r].pc = "txn_insert"
    /\ nextTxnId <= MaxTxnId
    /\ transactions' = transactions \cup
           {[id |-> nextTxnId, order_id |-> req[r].order,
             payment_status |-> req[r].payment]}
    /\ nextTxnId' = nextTxnId + 1
    /\ IF req[r].payment = "completed"
       THEN req' = [req EXCEPT ![r].pc = "txn_paid"]
       ELSE Settle(r, "ok")
    /\ UNCHANGED <<stock, cart, nextCartId, orders, orderItems, nextOrderId>>
    /\ UNCHANGED <<shipping, nextShippingId>>

\* createTransaction: UPDATE orders SET status = 'paid' WHERE id.
TxnMarkPaid(r) ==
    /\ req[r].pc = "txn_paid"
    /\ orders' = SetStatus(orders, req[r].order, "paid")
    /\ Settle(r, "ok")
    /\ UNCHANGED <<stock, cart, nextCartId, orderItems, nextOrderId>>
    /\ UNCHANGED fulfilment

OrderStatusNext ==
    \E r \in Requests :
        \/ UosReadOrder(r)
        \/ UosWrite(r)
        \/ TxnReadOrder(r)
        \/ TxnInsert(r)
        \/ TxnMarkPaid(r)
        \/ Return(r)

SpecOrderStatus == InitPlaced /\ [][OrderStatusNext]_vars

\* createShipping: the call arrives and the select of the order runs.
ShipReadOrder(r) ==
    /\ req[r].pc = "idle"
    /\ \E id \in OrderIds :
         LET call == [IdleReq EXCEPT !.op = "createShipping", !.order = id]
         IN  req' = [req EXCEPT ![r] =
                 IF \A o \in orders : o.id # id
                 THEN Settled(call, "OrderNotFound")
                 ELSE [call EXCEPT !.pc = "ship_insert"]]
    /\ UNCHANGED <<stock, cart, nextCartId, orders, orderItems, nextOrderId>>
    /\ UNCHANGED fulfilment

\* createShipping: the insert into shippingTable.
ShipInsert(r) ==
    /\ req[r].pc = "ship_insert"
    /\ nextShippingId <= MaxShippingId
    /\ shipping' = shipping \cup
           {[id |-> nextShippingId, order_id |-> req[r].order,
             shipping_status |-> "pending"]}
    /\ nextShippingId' = nextShippingId + 1
    /\ Settle(r, "ok")
    /\ UNCHANGED <<stock, cart, nextCartId, orders, orderItems, nextOrderId>>
    /\ UNCHANGED <<transactions, nextTxnId>>

ShippingRecordsNext ==
    \E r \in Requests : ShipReadOrder(r) \/ ShipInsert(r) \/ Return(r)

SpecShippingRecords == InitPlaced /\ [][ShippingRecordsNext]_vars

(***************************************************************************)
(* Properties.                                                             *)
(***************************************************************************)
\* The step in which request r calls createOrder / in which its
\* transaction commits.
CallsCreateOrder(r) == req[r].pc = "idle" /\ req'[r].op = "createOrder"
Commits(r) == req[r].pc = "co_commit" /\ req'[r].result = "ok"

LinesOf(u) == {c \in cart : c.user_id = u}
ItemsOf(o) == {i \in orderItems : i.order_id = o.id}
SoldQty(p) ==
    LET sold == {i \in orderItems : i.product_id = p}
    IN  SumOver(sold, [i \in sold |-> i.quantity])
DbUnchanged == UNCHANGED <<stock, cart, orders, orderItems>>

\* C1: in every reachable state every product's stock is at least 0.
StockNonNegative == \A p \in Products : stock[p] >= 0

\* An order has committed and has taken a product's stock down to 0.
StockExhaustedByOrder ==
    \E p \in Products : stock[p] = 0 /\ \E i \in orderItems : i.product_id = p

\* C2: after checkouts by different users, the quantities of the committed
\* order lines of a product sum to at most the stock the product started
\* with: two checkouts whose combined quantity exceeds it do not both
\* succeed.  Stated for orders of pairwise different users that hold one
\* line per product, so that only checkouts of different users' carts count.
NoOversell ==
    \A p \in Products :
        (/\ \A o \in orders : Cardinality({i \in ItemsOf(o) : i.product_id = p}) <= 1
         /\ \A o1, o2 \in orders : o1.user_id = o2.user_id => o1 = o2)
            => SoldQty(p) <= InitStock

\* C3: a createOrder call that finds a cart line of the user with a quantity
\* above its product's stock fails with InsufficientStock and leaves the
\* cart lines, the stock, the orders and the order lines as they were.
InsufficientStockChangesNothing ==
    [][\A r \in Requests :
         (/\ CallsCreateOrder(r)
          /\ \E c \in LinesOf(req'[r].user) : c.quantity > stock[c.product_id])
         => /\ req'[r].pc = "done"
            /\ req'[r].result = "InsufficientStock"
            /\ DbUnchanged]_vars

\* A createOrder call has failed with InsufficientStock.
OrderRefusedForStock ==
    \E r \in Requests :
        /\ req[r].pc = "done" /\ req[r].op = "createOrder"
        /\ req[r].result = "InsufficientStock"

\* C4: a createOrder call for a user without cart lines fails with
\* EmptyCart, creates no order and no order line and changes no stock.
EmptyCartCreatesNothing ==
    [][\A r \in Requests :
         (CallsCreateOrder(r) /\ LinesOf(req'[r].user) = {})
         => /\ req'[r].pc = "done"
            /\ req'[r].result = "EmptyCart"
            /\ UNCHANGED <<orders, orderItems, stock>>]_vars

\* A createOrder call of an existing user has failed with EmptyCart.
OrderRefusedForEmptyCart ==
    \E r \in Requests :
        /\ req[r].pc = "done" /\ req[r].op = "createOrder"
        /\ req[r].user \in Users /\ req[r].result = "EmptyCart"

\* Every write of r's createOrder is in the tables after the step: its
\* order, one order line per cart line it read, a stock update for every
\* product of those lines, and none of those cart lines is left.
Landed(r) ==
    /\ req[r].op = "createOrder"
    /\ req'[r].pc = "done" /\ req'[r].result = "ok"
    /\ \E o \in orders' \ orders :
         /\ orders' = orders \cup {o}
         /\ o.user_id = req[r].user
         /\ orderItems \subseteq orderItems'
         /\ \A i \in orderItems' \ orderItems : i.order_id = o.id
         /\ \A l \in req[r].items :
              /\ \E i \in orderItems' \ orderItems : i.src = l.id
              /\ stock'[l.product_id] \in
                    {m.product_stock - m.quantity :
                        m \in {n \in req[r].items : n.product_id = l.product_id}}
              /\ \A c \in cart' : c.id # l.id
         /\ \A p \in Products :
              (\A l \in req[r].items : l.product_id # p) => stock'[p] = stock[p]

\* C5: every step of a createOrder call, a commit or a failure part-way
\* included, either lands all of its writes, the cart deletion with the
\* order, the order lines and the stock updates, or changes nothing; and
\* orders, order lines and stock change in no other step.
AllOrNothing ==
    [][/\ \A r \in Requests :
            ((req[r].op = "createOrder" \/ req'[r].op = "createOrder")
                /\ req'[r] # req[r])
            => (Landed(r) \/ DbUnchanged)
       /\ (<<orders, orderItems, stock>>' # <<orders, orderItems, stock>>)
            => \E r \in Requests : Landed(r)]_vars

\* One createOrder has committed and another has failed part-way.
OneCommittedOneAborted ==
    \E r1, r2 \in Requests :
        /\ req[r1].op = "createOrder" /\ req[r1].result = "ok"
        /\ req[r2].op = "createOrder" /\ req[r2].result = "Fatal"
        /\ orders # {}

\* C6: a createOrder that commits leaves every product's stock at its stock
\* before the call (the one the call read, or the one the commit found)
\* minus the total quantity of the user's cart lines for the product.
StockDecrementedByCartQuantity ==
    [][\A r \in Requests :
         Commits(r) =>
           \A p \in Products :
             LET mine  == {l \in req[r].items : l.product_id = p}
                 total == SumOver(mine, [l \in mine |-> l.quantity])
             IN  \/ stock'[p] = stock[p] - total
                 \/ \E l \in mine : stock'[p] = l.product_stock - total]_vars

\* C7: a createOrder that commits adds exactly one order, pending, with the
\* call's user, address and method, and exactly one order line per cart
\* line it read, with the line's product and quantity and the product's
\* price.
OrderAndLinesCreated ==
    [][\A r \in Requests :
         Commits(r) =>
           \E o \in orders' :
             /\ o \notin orders
             /\ orders' = orders \cup {o}
             /\ o.status = "pending"
             /\ o.user_id = req[r].user
             /\ o.shipping_address = req[r].addr
             /\ o.shipping_method = req[r].method
             /\ orderItems \subseteq orderItems'
             /\ Cardinality(orderItems' \ orderItems) = Cardinality(req[r].items)
             /\ \A l \in req[r].items :
                  \E i \in orderItems' \ orderItems :
                    /\ i.order_id = o.id
                    /\ i.src = l.id
                    /\ i.product_id = l.product_id
                    /\ i.quantity = l.quantity
                    /\ i.price_at_purchase = Price[l.product_id]]_vars

\* An order with lines of two products and a quantity above 1 is committed.
TwoLineOrderCommitted ==
    \E o \in orders :
        /\ o.status = "pending"
        /\ \E i, j \in ItemsOf(o) : i.product_id # j.product_id /\ i.quantity > 1

\* C8: the total of the order a createOrder commits is the exact sum, over
\* the cart lines it read, of the product's price times the quantity.
TotalIsExactSum ==
    [][\A r \in Requests :
         Commits(r) =>
           \A o \in orders' \ orders :
             o.total_amount =
                SumOver(req[r].items,
                        [l \in req[r].items |-> Price[l.product_id] * l.quantity])]_vars

\* The order of the spec's example is committed: 2 x 999.99 + 29.99.
ExampleTotalCommitted == \E o \in orders : o.total_amount = 202997

\* C9: a createOrder call for a user id that is in no row of usersTable
\* fails with NotFound.
UnknownUserNotFound ==
    \A r \in Requests :
        (req[r].pc = "done" /\ req[r].op = "createOrder" /\ req[r].user \notin UserRows)
            => req[r].result = "NotFound"

\* C10: in every reachable state there is at most one cart line per
\* (user, product) pair.
OneLinePerPair ==
    \A c, d \in cart :
        (c.user_id = d.user_id /\ c.product_id = d.product_id) => c.id = d.id

\* The step in which request r calls the handler op, and the step r takes
\* from the statement at pc.
Calls(r, op) == req[r].pc = "idle" /\ req'[r].op = op
StepsFrom(r, pc) == req[r].pc = pc /\ req'[r] # req[r]
PairLines(u, p) == {c \in cart : c.user_id = u /\ c.product_id = p}
LineIds(rows) == {c.id : c \in rows}

\* C11: an addToCart call that finds a line of the (user, product) pair
\* whose quantity plus the requested quantity is at most the stock the call
\* read goes on to update that line with the sum, and its update creates no
\* line: the cart keeps its lines and the addressed line holds the sum.
MergeAddsToExistingLine ==
    [][\A r \in Requests :
         /\ StepsFrom(r, "add_existing") =>
              LET rows == PairLines(req[r].user, req[r].product)
              IN  (/\ rows # {}
                   /\ \A c \in rows : c.quantity + req[r].qty <= req[r].stockRead)
                  => /\ req'[r].pc = "add_update"
                     /\ \E c \in rows : /\ req'[r].line = c.id
                                        /\ req'[r].newQty = c.quantity + req[r].qty
                     /\ DbUnchanged
         /\ StepsFrom(r, "add_update") =>
              /\ nextCartId' = nextCartId
              /\ LineIds(cart') = LineIds(cart)
              /\ Cardinality(cart') = Cardinality(cart)
              /\ \A c \in cart :
                   IF c.id = req[r].line
                   THEN [c EXCEPT !.quantity = req[r].newQty] \in cart'
                   ELSE c \in cart'
              /\ UNCHANGED <<stock, orders, orderItems>>]_vars

\* An addToCart call has merged into the only line ever created: the line
\* holds 1 + 1.
MergedIntoOnlyLine ==
    \E r \in Requests :
        /\ req[r].pc = "done" /\ req[r].op = "addToCart" /\ req[r].result = "ok"
        /\ nextCartId = 2
        /\ \E c \in cart : /\ c.id = req[r].line /\ c.user_id = req[r].user
                           /\ c.quantity = 2

AddToCartRefusals ==
    [][\A r \in Requests :
         Calls(r, "addToCart") =>
           LET q == req'[r]
               userBad == q.user \notin Users
           IN  /\ DbUnchanged /\ nextCartId' = nextCartId
               /\ userBad <=> (q.pc = "done" /\ q.result = "UserNotFound")
               /\ (~userBad /\ q.product \notin Products)
                     <=> (q.pc = "done" /\ q.result = "ProductNotFound")
               /\ (~userBad /\ q.product \in Products /\ q.qty > stock[q.product])
                     <=> (q.pc = "done" /\ q.result = "InsufficientStock")
               /\ q.pc \in {"done", "add_existing"}]_vars

\* An addToCart call of the inactive user was refused.
InactiveUserRefused ==
    \E r \in Requests :
        /\ req[r].pc = "done" /\ req[r].op = "addToCart"
        /\ req[r].user \in InactiveUsers /\ req[r].result = "UserNotFound"

\* The id of the line the write step of r's addToCart or updateCartItem
\* addresses: the id the insert takes from the serial, or the line selected.
WrittenLine(r) == IF req[r].pc = "add_insert" THEN nextCartId ELSE req[r].line
WritesLine(r) ==
    /\ req[r].pc \in {"add_insert", "add_update", "upd_write"}
    /\ req'[r].pc = "done" /\ req'[r].result = "ok"

\* C14: when an addToCart or updateCartItem call succeeds, the quantity of
\* the line it wrote is at most the stock the product has at that moment.
WrittenWithinCurrentStock ==
    [][\A r \in Requests :
         WritesLine(r) =>
           \A c \in cart' : c.id = WrittenLine(r) => c.quantity <= stock'[c.product_id]]_vars

\* C14, amended: the quantity a successful addToCart or updateCartItem call
\* writes is at most the stock of the product that the call itself read
\* before the write: each check passes only a quantity within the stock
\* read, and the write stores the quantity that passed.
WrittenWithinStockRead ==
    [][\A r \in Requests :
         /\ (Calls(r, "addToCart") /\ req'[r].pc = "add_existing") =>
              /\ req'[r].stockRead = stock[req'[r].product]
              /\ req'[r].qty <= req'[r].stockRead
         /\ (StepsFrom(r, "add_existing") /\ req'[r].pc = "add_insert") =>
              /\ req'[r].qty = req[r].qty /\ req'[r].product = req[r].product
              /\ req[r].qty <= req[r].stockRead
         /\ (StepsFrom(r, "add_existing") /\ req'[r].pc = "add_update") =>
              /\ req'[r].newQty <= req[r].stockRead
              /\ \E c \in cart : c.id = req'[r].line /\ c.product_id = req[r].product
         /\ (StepsFrom(r, "upd_product") /\ req'[r].pc = "upd_write") =>
              /\ req'[r].qty = req[r].qty /\ req'[r].product = req[r].product
              /\ req[r].qty <= stock[req[r].product]
         /\ WritesLine(r) =>
              \A c \in cart' :
                c.id = WrittenLine(r) =>
                  c.quantity = IF req[r].pc = "add_update"
                               THEN req[r].newQty ELSE req[r].qty]_vars

\* A cart call has succeeded and its line holds more than the product's
\* stock: an order of another user took the stock after the call read it.
LineAboveStockAfterSuccess ==
    \E r \in Requests :
        /\ req[r].pc = "done" /\ req[r].result = "ok"
        /\ req[r].op \in {"addToCart", "updateCartItem"}
        /\ orders # {}
        /\ \A o \in orders : o.user_id # req[r].user
        /\ \E c \in LinesOf(req[r].user) : c.quantity > stock[c.product_id]

\* The line id of r's call is in no line of the caller / is in a line of
\* another user.
NotOwnLine(q) == ~ \E c \in cart : c.id = q.line /\ c.user_id = q.user
OthersLine(q) == \E c \in cart : c.id = q.line /\ c.user_id # q.user

\* C15: an updateCartItem call with a line id that is in no cart line and
\* one with a line id of another user's line end the same way, with
\* CartItemNotFound, and change no cart line.
UpdateNotFoundAlike ==
    [][\A r \in Requests :
         (Calls(r, "updateCartItem") /\ NotOwnLine(req'[r]))
         => /\ req'[r].pc = "done"
            /\ req'[r].result = "CartItemNotFound"
            /\ req'[r] = Settled([IdleReq EXCEPT !.op = "updateCartItem",
                                                 !.user = req'[r].user,
                                                 !.line = req'[r].line],
                                 "CartItemNotFound")
            /\ DbUnchanged]_vars

\* An updateCartItem call for another user's line got CartItemNotFound.
UpdateOfOthersLineRefused ==
    \E r \in Requests :
        /\ req[r].pc = "done" /\ req[r].op = "updateCartItem"
        /\ req[r].result = "CartItemNotFound"
        /\ OthersLine(req[r])

\* C16: the stock check of an updateCartItem call on the caller's line
\* fails with InsufficientStock exactly when the new quantity is above the
\* product's stock, a quantity equal to the stock goes on to the update,
\* and the failure changes no cart line.
UpdateRefusedIffAboveStock ==
    [][\A r \in Requests :
         StepsFrom(r, "upd_product") =>
           /\ DbUnchanged
           /\ IF req[r].qty > stock[req[r].product]
              THEN req'[r].pc = "done" /\ req'[r].result = "InsufficientStock"
              ELSE req'[r].pc = "upd_write"]_vars

\* One updateCartItem call was refused for stock while another, asking for
\* exactly the product's stock, has passed the check.
UpdateRefusedAndUpdateAtStock ==
    \E r1, r2 \in Requests :
        /\ req[r1].pc = "done" /\ req[r1].op = "updateCartItem"
        /\ req[r1].result = "InsufficientStock"
        /\ req[r2].pc = "upd_write" /\ req[r2].qty = stock[req[r2].product]

\* C17: an updateCartItem call that succeeds replaces the addressed line by
\* the same line with the new quantity, changes no other cart line, no
\* stock, no order and no order line.
UpdateChangesOnlyQuantity ==
    [][\A r \in Requests :
         (StepsFrom(r, "upd_write") /\ req'[r].result = "ok")
         => /\ \E c \in cart :
                 /\ c.id = req[r].line
                 /\ cart' = (cart \ {c}) \cup {[c EXCEPT !.quantity = req[r].qty]}
            /\ UNCHANGED <<stock, orders, orderItems, nextCartId>>]_vars

\* An updateCartItem call has succeeded on one of two lines, and the other
\* line holds another quantity.
UpdatedOneOfTwoLines ==
    \E r \in Requests :
        /\ req[r].pc = "done" /\ req[r].op = "updateCartItem" /\ req[r].result = "ok"
        /\ \E c, d \in cart : c.id = req[r].line /\ d.id # c.id /\ d.quantity # c.quantity

\* C18: a removeCartItem call never fails; it returns true exactly when it
\* finds the line as a line of the caller, and then the line is gone; it
\* returns false and changes nothing otherwise; and a line id that is gone
\* is in no cart line ever after, so every later call with it returns false.
RemoveIdempotent ==
    [][/\ \A r \in Requests :
            Calls(r, "removeCartItem") =>
              /\ req'[r].pc = "done"
              /\ req'[r].result = IF NotOwnLine(req'[r]) THEN "false" ELSE "true"
              /\ req'[r].result = "true" => \A c \in cart' : c.id # req'[r].line
              /\ req'[r].result = "false" => DbUnchanged
       /\ \A id \in CartIds :
            (id < nextCartId /\ id \notin LineIds(cart)) => id \notin LineIds(cart')]_vars

\* Two removeCartItem calls of one user for one line id: one returned true,
\* the other false.
RemovedTwice ==
    \E r1, r2 \in Requests :
        /\ req[r1].pc = "done" /\ req[r1].op = "removeCartItem"
        /\ req[r2].pc = "done" /\ req[r2].op = "removeCartItem"
        /\ req[r1].user = req[r2].user /\ req[r1].line = req[r2].line
        /\ req[r1].result = "true" /\ req[r2].result = "false"
        /\ req[r1].line \notin LineIds(cart)

\* C19: a removeCartItem call deletes at most the one line with the id and
\* the user of the call; with the id of another user's line it returns
\* false and the line stays; no other cart line, no stock, no order and no
\* order line changes.
RemoveOnlyOwnLine ==
    [][\A r \in Requests :
         Calls(r, "removeCartItem") =>
           /\ cart' \subseteq cart
           /\ Cardinality(cart \ cart') <= 1
           /\ \A c \in cart \ cart' : c.id = req'[r].line /\ c.user_id = req'[r].user
           /\ OthersLine(req'[r]) => (req'[r].result = "false" /\ cart' = cart)
           /\ (req'[r].result = "true") <=> (cart' # cart)
           /\ UNCHANGED <<stock, orders, orderItems, nextCartId>>]_vars

\* A removeCartItem call for another user's line returned false and the
\* line is there.
RemoveOfOthersLineRefused ==
    \E r \in Requests :
        /\ req[r].pc = "done" /\ req[r].op = "removeCartItem"
        /\ req[r].result = "false"
        /\ OthersLine(req[r])

\* The calculateShipping call that request r has settled.
ShippingDone(r) == req[r].pc = "done" /\ req[r].op = "calculateShipping"

\* C20: calculateShipping fails, with no options, for a destination address
\* that is empty or holds white space only (the address error) and for a
\* weight of 0 or below (the weight error, when the address is given).
ShippingRejectsInvalidInput ==
    \A r \in Requests :
        ShippingDone(r) =>
          LET blank == \A i \in 1..Len(req[r].dest) : req[r].dest[i] \in Whitespace
          IN  /\ blank => req[r].result = "EmptyAddress"
              /\ (~blank /\ req[r].weight <= 0) => req[r].result = "NonPositiveWeight"
              /\ (blank \/ req[r].weight <= 0) => req[r].options = <<>>

\* A call with an address of white space only was refused.
WhitespaceAddressRefused ==
    \E r \in Requests :
        /\ ShippingDone(r) /\ req[r].result = "EmptyAddress"
        /\ Len(req[r].dest) > 0

\* The valid calculateShipping call that request r has settled, its zone
\* and the methods of its options.
ShippingOk(r) == ShippingDone(r) /\ req[r].result = "ok"
ZoneOf(r) == SHIPPING_ZONES[determineShippingZone(req[r].dest)]
MethodsOf(r) == {req[r].options[i].method : i \in 1..Len(req[r].options)}

\* C21: for a valid input the options are exactly Standard when the weight
\* is at most 50, Express when at most 30 and Overnight when at most 20,
\* one option each; above 50 there is exactly one option, Freight, with
\* cost 50.00 x zone multiplier x weight multiplier, which is above 100.00,
\* and estimatedDays of the zone's base days plus 2; the list is never
\* empty.
MethodsWithinWeightCapOrFreight ==
    \A r \in Requests :
        ShippingOk(r) =>
          LET w == req[r].weight
              o == req[r].options
          IN  /\ Len(o) >= 1
              /\ Cardinality(MethodsOf(r)) = Len(o)
              /\ "Standard" \in MethodsOf(r) <=> w <= 500
              /\ "Express" \in MethodsOf(r) <=> w <= 300
              /\ "Overnight" \in MethodsOf(r) <=> w <= 200
              /\ "Freight" \in MethodsOf(r) <=> w > 500
              /\ MethodsOf(r) \subseteq {"Standard", "Express", "Overnight", "Freight"}
              /\ w > 500 =>
                   /\ Len(o) = 1
                   /\ 100 * o[1].cost = 5000 * ZoneOf(r).multiplier * 25
                   /\ o[1].cost > 10000
                   /\ o[1].estimatedDays = ZoneOf(r).baseDays + 2

\* Calls at a weight cap and above every cap: weight 50 has got Standard
\* alone, or weight 50.1 has got Freight.
OptionsAtTheCaps ==
    \E r \in Requests :
        /\ ShippingOk(r)
        /\ \/ req[r].weight = 500 /\ MethodsOf(r) = {"Standard"}
           \/ req[r].weight = 501 /\ MethodsOf(r) = {"Freight"}

\* C22: for a valid input the options are in the order of non-decreasing
\* cost.
OptionsSortedByCost ==
    \A r \in Requests :
        ShippingOk(r) =>
          \A i, j \in 1..Len(req[r].options) :
              i < j => req[r].options[i].cost <= req[r].options[j].cost

\* A call has returned three options of three different costs.
ThreeOptionsReturned ==
    \E r \in Requests :
        /\ ShippingOk(r) /\ Len(req[r].options) = 3
        /\ req[r].options[1].cost < req[r].options[2].cost
        /\ req[r].options[2].cost < req[r].options[3].cost

\* The least whole number at or above tenths / 10.
CeilOfTenths(tenths) == CHOOSE n \in 0..tenths : 10 * n >= tenths /\ 10 * (n - 1) < tenths

\* C23: for a valid input every option's estimatedDays is at least 1, and
\* the one of a base method is max(1, ceil(zone base days x speed factor)),
\* with base days 1, 3, 5, 10 for local, regional, national, international.
EstimatedDaysAtLeastOne ==
    \A r \in Requests :
        ShippingOk(r) =>
          /\ <<SHIPPING_ZONES.local.baseDays, SHIPPING_ZONES.regional.baseDays,
               SHIPPING_ZONES.national.baseDays,
               SHIPPING_ZONES.international.baseDays>> = <<1, 3, 5, 10>>
          /\ \A i \in 1..Len(req[r].options) :
               LET o == req[r].options[i]
               IN  /\ o.estimatedDays >= 1
                   /\ \A k \in 1..Len(BASE_METHODS) :
                        BASE_METHODS[k].method = o.method =>
                          LET c == CeilOfTenths(ZoneOf(r).baseDays
                                                * BASE_METHODS[k].speedMultiplier)
                          IN  o.estimatedDays = IF c > 1 THEN c ELSE 1

\* A local Overnight option, 1 x 0.2 days, is returned with 1 day.
LocalOvernightReturned ==
    \E r \in Requests :
        /\ ShippingOk(r) /\ ZoneOf(r).baseDays = 1
        /\ \E i \in 1..Len(req[r].options) :
              req[r].options[i].method = "Overnight" /\ req[r].options[i].estimatedDays = 1

\* The place of a zone in local < regional < national < international, and
\* of a weight (in tenths) in the bands <= 1, <= 5, <= 10, <= 20, > 20.
ZoneRank(zone) ==
    CASE zone = "local" -> 1 [] zone = "regional" -> 2
      [] zone = "national" -> 3 [] zone = "international" -> 4
WeightBand(weight) ==
    IF weight <= 10 THEN 1 ELSE IF weight <= 50 THEN 2
    ELSE IF weight <= 100 THEN 3 ELSE IF weight <= 200 THEN 4 ELSE 5

\* C24: of two valid calls with the same weight, the one to the later zone
\* of local < regional < national < international gets the strictly higher
\* cost for every method both return; of two valid calls to the same zone,
\* the one in the higher weight band gets a cost that is not lower.
CostGrowsWithZoneAndWeight ==
    \A r1, r2 \in Requests :
        (ShippingOk(r1) /\ ShippingOk(r2)) =>
          LET z1 == ZoneRank(determineShippingZone(req[r1].dest))
              z2 == ZoneRank(determineShippingZone(req[r2].dest))
          IN  \A i \in 1..Len(req[r1].options), j \in 1..Len(req[r2].options) :
                LET a == req[r1].options[i]
                    b == req[r2].options[j]
                IN  a.method = b.method =>
                      /\ (req[r1].weight = req[r2].weight /\ z1 < z2)
                            => a.cost < b.cost
                      /\ (z1 = z2 /\ WeightBand(req[r1].weight) < WeightBand(req[r2].weight))
                            => a.cost <= b.cost

\* Two calls with one weight have returned Standard for a local and for a
\* regional address.
LocalAndRegionalCompared ==
    /\ ShippingOk(1) /\ ShippingOk(2)
    /\ req[1].weight = req[2].weight
    /\ determineShippingZone(req[1].dest) = "local"
    /\ determineShippingZone(req[2].dest) = "regional"
    /\ "Standard" \in MethodsOf(1) \cap MethodsOf(2)

\* The place of a status in pending -> paid -> shipped -> completed.
StatusRank(status) ==
    CASE status = "pending" -> 1 [] status = "paid" -> 2
      [] status = "shipped" -> 3 [] status = "completed" -> 4
      [] status = "cancelled" -> 5

\* C26: no step moves an order from a status of the chain pending -> paid
\* -> shipped -> completed back to an earlier one, and none moves a
\* cancelled order.
StatusMovesForward ==
    [][\A o \in orders : \A n \in orders' :
         n.id = o.id => StatusRank(n.status) >= StatusRank(o.status)]_vars

\* C27: no two shipping records are of one order, and a createShipping call
\* for an order id of no order has failed and no record names that id.
OneShippingPerOrder ==
    /\ \A s1, s2 \in shipping : s1.order_id = s2.order_id => s1.id = s2.id
    /\ \A s1 \in shipping : \E o \in orders : o.id = s1.order_id
    /\ \A r \in Requests :
         (req[r].pc = "done" /\ req[r].op = "createShipping"
            /\ \A o \in orders : o.id # req[r].order)
         => req[r].result = "OrderNotFound"

\* Request r2 calls createOrder for the user whose createOrder request r1
\* has just committed, and the user's cart is as that commit left it.
Retries(r1, r2) ==
    /\ r1 # r2
    /\ req[r1].pc = "done" /\ req[r1].op = "createOrder" /\ req[r1].result = "ok"
    /\ CallsCreateOrder(r2) /\ req'[r2].user = req[r1].user
    /\ LinesOf(req[r1].user) = {}

StockConserved ==
    \A p \in Products : stock[p] + SoldQty(p) = InitStock

\* C29: a createOrder that commits deletes only cart lines of the user that
\* have an order line of the same product and quantity in its order.
DeletesOnlyConvertedLines ==
    [][\A r \in Requests :
         Commits(r) =>
           \A c \in cart \ cart' :
             \E i \in orderItems' \ orderItems :
                i.product_id = c.product_id /\ i.quantity = c.quantity]_vars

\* The step is one of a cart handler run by request r.
CartStep(r) ==
    /\ req'[r] # req[r]
    /\ {req[r].op, req'[r].op} \cap
         {"addToCart", "updateCartItem", "removeCartItem", "getCartItems"} # {}

\* C30: no step of addToCart, updateCartItem, removeCartItem or
\* getCartItems changes a stock, an order or an order line, and no step of
\* a createOrder changes a cart line of a user other than its own.
CartOpsReserveNothing ==
    [][\A r \in Requests :
         /\ CartStep(r) => UNCHANGED <<stock, orders, orderItems, nextOrderId>>
         /\ (req'[r] # req[r] /\ "createOrder" \in {req[r].op, req'[r].op}) =>
              /\ \A c \in cart : c.user_id # req'[r].user => c \in cart'
              /\ cart' \subseteq cart]_vars

\* A createOrder has committed while another user holds a cart line, and a
\* cart call has settled with the stock of that line's product untouched.
OrderBesideOthersCart ==
    \E r1, r2 \in Requests :
        /\ req[r1].pc = "done" /\ req[r1].op = "createOrder" /\ req[r1].result = "ok"
        /\ req[r2].pc = "done" /\ req[r2].op \in {"addToCart", "updateCartItem"}
        /\ req[r2].result = "ok" /\ req[r2].user # req[r1].user
        /\ \E c \in LinesOf(req[r2].user) : stock[c.product_id] = InitStock

====
